---- MODULE Spec2Model ----
(***************************************************************************)
(* Isolation game-playing agent (build-a-game-playing-agent):              *)
(* CustomPlayer.get_move, minimax, alphabeta and the four heuristics.      *)
(* Scores are kept as integers, ten times the Python floats (the           *)
(* heuristics' coefficients are 0.4, 0.5, 0.8, 1.5 and 5), and             *)
(* float("inf") is the integer Inf, larger than ten times any finite       *)
(* score.                                                                  *)
(***************************************************************************)
EXTENDS Integers, Sequences, FiniteSets, TLC

\* ------------------------------------------------------------------ bounds
\* Deepest iteration the iterative-deepening loop is followed to.
MaxDepth == 4
\* Largest search_depth an agent is constructed with.
MaxSearchDepth == 2
\* Largest first reading of the clock above TIMER_THRESHOLD.
MaxSlack == 8
\* The external play is followed up to this move count.
MaxMoveCount == 3

\* ------------------------------------------------------- program constants
Inf == 1000000
timeout == 10
TIMER_THRESHOLD == timeout - 2

\* (-1, -1): no legal move
NoMove == <<-1, -1>>
\* Board.NOT_MOVED (None): the player has no location yet
NOT_MOVED == << >>
\* the move missing from alphabeta's depth-0 return, a 1-tuple
Absent == << >>

\* (width, height) of the boards played on
Dims == {<<3, 3>>, <<4, 2>>, <<4, 3>>}

Methods == {"minimax", "alphabeta"}
ScoreFns == {"custom_score", "custom_score_1", "custom_score_2", "custom_score_3"}

\* ------------------------------------------------- isolation.Board (external)
Other(p) == 3 - p

NewBoard(w, h) ==
    [width |-> w, height |-> h,
     blank |-> {<<r, c>> : r \in 0..(h - 1), c \in 0..(w - 1)},
     loc |-> <<NOT_MOVED, NOT_MOVED>>,
     active |-> 1, move_count |-> 0]

move_is_legal(game, move) ==
    /\ 0 <= move[1] /\ move[1] < game.height
    /\ 0 <= move[2] /\ move[2] < game.width
    /\ move \in game.blank

\* blank cells, column by column
get_blank_spaces(game) ==
    LET n == game.width * game.height
        cell(k) == <<(k - 1) % game.height, (k - 1) \div game.height>>
        all == [k \in 1..n |-> cell(k)]
    IN  SelectSeq(all, LAMBDA m : m \in game.blank)

directions ==
    << <<-2, -1>>, <<-2, 1>>, <<-1, -2>>, <<-1, 2>>,
       <<1, -2>>, <<1, 2>>, <<2, -1>>, <<2, 1>> >>

\* the knight moves from the player's cell; any blank cell before the
\* player's first move
get_legal_moves(game, player) ==
    LET at == game.loc[player]
    IN  IF at = NOT_MOVED THEN get_blank_spaces(game)
        ELSE LET to == [k \in 1..Len(directions) |->
                          <<at[1] + directions[k][1], at[2] + directions[k][2]>>]
             IN  SelectSeq(to, LAMBDA m : move_is_legal(game, m))

forecast_move(game, move) ==
    [game EXCEPT !.blank = @ \ {move},
                 !.loc[game.active] = move,
                 !.active = Other(game.active),
                 !.move_count = @ + 1]

is_loser(game, player) ==
    player = game.active /\ Len(get_legal_moves(game, game.active)) = 0

is_winner(game, player) ==
    player = Other(game.active) /\ Len(get_legal_moves(game, game.active)) = 0

Range(s) == {s[i] : i \in 1..Len(s)}

\* --------------------------------------------------------------- heuristics
\* An evaluation: the score, whether the call raised (a location that is
\* None was indexed), and the Board queries made, in order.
Eval(v, qs) == [value |-> v, raised |-> FALSE, queries |-> qs]
EvalRaised(qs) == [value |-> 0, raised |-> TRUE, queries |-> qs]

Overlap(game, player) ==
    Cardinality(Range(get_legal_moves(game, player))
                \cap Range(get_legal_moves(game, Other(player))))

MobilityQueries ==
    <<"is_loser", "is_winner", "get_legal_moves", "get_opponent", "get_legal_moves">>

\* game_agent.py:58-72, heuristics.py:93-107: the distance term
DistanceTerm(game, player, move_value) ==
    LET player_pos == game.loc[player]
        opponent_pos == game.loc[Other(player)]
        num_blank == Cardinality(game.blank)
        total_spaces == game.width * game.height
        d2 == (player_pos[1] - opponent_pos[1]) * (player_pos[1] - opponent_pos[1])
              + (player_pos[2] - opponent_pos[2]) * (player_pos[2] - opponent_pos[2])
        qs == MobilityQueries \o <<"get_player_location", "get_opponent",
                                   "get_player_location", "get_blank_spaces">>
    IN  IF player_pos = NOT_MOVED \/ opponent_pos = NOT_MOVED
        THEN EvalRaised(qs)
        ELSE IF 9 * d2 < game.width * game.width /\ 3 * num_blank > total_spaces
        THEN Eval(move_value - 8, qs)
        ELSE IF 9 * d2 > game.width * game.width /\ 3 * num_blank < total_spaces
        THEN Eval(move_value + 8, qs)
        ELSE Eval(move_value, qs)

custom_score(game, player) ==
    IF is_loser(game, player) THEN Eval((-Inf), <<"is_loser">>)
    ELSE IF is_winner(game, player) THEN Eval(Inf, <<"is_loser", "is_winner">>)
    ELSE LET player_moves == get_legal_moves(game, player)
             opponent_moves == get_legal_moves(game, Other(player))
             move_value == 10 * (Len(player_moves) - Len(opponent_moves))
                           - 15 * Overlap(game, player)
         IN  DistanceTerm(game, player, move_value)

custom_score_1(game, player) ==
    IF is_loser(game, player) THEN Eval((-Inf), <<"is_loser">>)
    ELSE IF is_winner(game, player) THEN Eval(Inf, <<"is_loser", "is_winner">>)
    ELSE LET player_moves == get_legal_moves(game, player)
             opponent_moves == get_legal_moves(game, Other(player))
             own_moves_value == 10 * Len(player_moves) - 5 * Overlap(game, player)
             opp_moves_value == 10 * Len(opponent_moves)
         IN  Eval(own_moves_value - opp_moves_value, MobilityQueries)

custom_score_2(game, player) ==
    IF is_loser(game, player) THEN Eval((-Inf), <<"is_loser">>)
    ELSE IF is_winner(game, player) THEN Eval(Inf, <<"is_loser", "is_winner">>)
    ELSE LET player_moves == get_legal_moves(game, player)
             opponent_moves == get_legal_moves(game, Other(player))
             move_value == 10 * (Len(player_moves) - Len(opponent_moves))
                           - 15 * Overlap(game, player)
         IN  DistanceTerm(game, player, move_value)

\* custom_score_3 without its is_winner check
custom_score_3_noWinnerCheck(game, player) ==
    IF is_loser(game, player) THEN Eval(-Inf, <<"is_loser">>)
    ELSE LET own_moves_value == Len(get_legal_moves(game, player))
             opp_moves_value == Len(get_legal_moves(game, Other(player)))
         IN  Eval(10 * (own_moves_value - opp_moves_value), MobilityQueries)

custom_score_3(game, player) ==
    IF is_loser(game, player) THEN Eval((-Inf), <<"is_loser">>)
    ELSE IF is_winner(game, player) THEN Eval(Inf, <<"is_loser", "is_winner">>)
    ELSE LET own_moves_value == Len(get_legal_moves(game, player))
             opp_moves_value == Len(get_legal_moves(game, Other(player)))
             move_value == 10 * (own_moves_value - opp_moves_value)
             num_repeats == Overlap(game, player)
         IN  IF opp_moves_value = num_repeats /\ own_moves_value = num_repeats
             THEN IF num_repeats = 1
                  THEN Eval(move_value - 50, MobilityQueries)
                  ELSE Eval(move_value - 4, MobilityQueries)
             ELSE Eval(move_value, MobilityQueries)

\* self.score(game, player) for the score_fn the agent was constructed with
Score(fn, game, player) ==
    CASE fn = "custom_score" -> custom_score(game, player)
      [] fn = "custom_score_1" -> custom_score_1(game, player)
      [] fn = "custom_score_2" -> custom_score_2(game, player)
      [] fn = "custom_score_3" -> custom_score_3(game, player)

\* ------------------------------------------------------------------ clock
\* time_left(): the q-th query (q queries were made before it) reads t0
\* less what the queries before it cost.
time_left(clock, q) == clock.t0 - clock.rate * q

\* TimeUp raising Timeout already at a reading equal to the threshold
TimeUp_inclusive(clock, q) == time_left(clock, q) <= TIMER_THRESHOLD

\* game_agent.py:230 and 314
TimeUp(clock, q) == time_left(clock, q) < TIMER_THRESHOLD

\* ----------------------------------------------------------------- search
\* What a call of minimax or alphabeta comes to: status "ok" with the
\* (score, move) returned, or "timeout" when Timeout() was raised; q is the
\* number of clock queries made so far, visited the states forecast, evals
\* the number of calls of the score function, scores the list `scores` of
\* the node, cut whether the node returned from inside its loop.
Result(status, score, move, q, visited, evals, scores, cut) ==
    [status |-> status, score |-> score, move |-> move, q |-> q,
     visited |-> visited, evals |-> evals, scores |-> scores, cut |-> cut]

Raised(q, visited, evals) ==
    Result("timeout", 0, NoMove, q, visited, evals, << >>, FALSE)

\* the accumulator of a loop over the moves of a node
Acc(q) ==
    [status |-> "ok", scores |-> << >>, q |-> q, visited |-> {}, evals |-> 0,
     bound |-> 0, cut |-> FALSE, score |-> 0, move |-> NoMove]

\* game_agent.py:268
MinimaxMaxBetter(s, best) == s > best
\* game_agent.py:275
MinimaxMinBetter(s, best) == s < best
\* game_agent.py:350
AlphabetaMaxBetter(s, best) == s >= best
\* game_agent.py:368
AlphabetaMinBetter(s, best) == s < best

Better(loop, s, best) ==
    CASE loop = "minimax_max" -> MinimaxMaxBetter(s, best)
      [] loop = "minimax_min" -> MinimaxMinBetter(s, best)
      [] loop = "alphabeta_max" -> AlphabetaMaxBetter(s, best)
      [] loop = "alphabeta_min" -> AlphabetaMinBetter(s, best)

\* max = 0; for i in range(len(scores)): if scores[i] ? scores[max]: max = i
RECURSIVE BestIndex(_, _, _, _)
BestIndex(loop, scores, i, best) ==
    IF i > Len(scores) THEN best
    ELSE BestIndex(loop, scores, i + 1,
                   IF Better(loop, scores[i], scores[best]) THEN i ELSE best)

\* game_agent.py:242-246 and 322-326
NoMovesScore(maximizing_player) == IF maximizing_player THEN -Inf ELSE Inf

RECURSIVE minimax(_, _, _, _, _)
RECURSIVE minimaxRecurse(_, _, _, _, _, _, _)

\* game_agent.py:248-251: the children are scored, not searched
minimaxScoreChildren(ag, game, queue, q) ==
    [status |-> "ok",
     scores |-> [k \in 1..Len(queue) |->
                   Score(ag.score, forecast_move(game, queue[k]), ag.self).value],
     q |-> q,
     visited |-> {forecast_move(game, queue[k]) : k \in 1..Len(queue)},
     evals |-> Len(queue)]

\* the accumulator after the child new_game came to new_score
AccAfter(acc, new_game, new_score) ==
    [acc EXCEPT !.q = new_score.q,
                !.visited = @ \cup {new_game} \cup new_score.visited,
                !.evals = @ + new_score.evals]

\* game_agent.py:260-262: one child searched
minimaxChild(acc, new_game, new_score) ==
    IF new_score.status = "timeout"
    THEN [AccAfter(acc, new_game, new_score) EXCEPT !.status = "timeout"]
    ELSE [AccAfter(acc, new_game, new_score) EXCEPT
              !.scores = Append(@, new_score.score)]

\* game_agent.py:257-262
minimaxRecurse(ag, game, queue, depth, maximizing_player, i, acc) ==
    IF i > Len(queue) \/ acc.status = "timeout" THEN acc
    ELSE minimaxRecurse(ag, game, queue, depth, maximizing_player, i + 1,
             minimaxChild(acc, forecast_move(game, queue[i]),
                 minimax(ag, forecast_move(game, queue[i]), depth - 1,
                         ~maximizing_player, acc.q)))

\* game_agent.py:265-277
minimaxSelect(queue, maximizing_player, kids, best) ==
    IF kids.status = "timeout" THEN Raised(kids.q, kids.visited, kids.evals)
    ELSE IF Len(kids.scores) = 0
    \* scores[0] of an empty list: IndexError (depth < 1 only)
    THEN Result("error", 0, NoMove, kids.q, kids.visited, kids.evals, << >>, FALSE)
    ELSE Result("ok", kids.scores[best], queue[best], kids.q,
                kids.visited, kids.evals, kids.scores, FALSE)

minimaxBest(maximizing_player, kids) ==
    BestIndex(IF maximizing_player THEN "minimax_max" ELSE "minimax_min",
              kids.scores, 1, 1)

\* game_agent.py:248-277
minimaxNode(queue, maximizing_player, kids) ==
    minimaxSelect(queue, maximizing_player, kids, minimaxBest(maximizing_player, kids))

\* game_agent.py:239-277
minimaxMoves(ag, game, depth, maximizing_player, q, queue) ==
    IF Len(queue) = 0
    THEN Result("ok", NoMovesScore(maximizing_player), NoMove, q, {}, 0, << >>, FALSE)
    ELSE minimaxNode(queue, maximizing_player,
             IF depth = 1 THEN minimaxScoreChildren(ag, game, queue, q)
             ELSE IF depth > 1
             THEN minimaxRecurse(ag, game, queue, depth, maximizing_player, 1, Acc(q))
             ELSE Acc(q))

\* game_agent.py:205-277
minimax(ag, game, depth, maximizing_player, q) ==
    IF TimeUp(ag.clock, q) THEN Raised(q + 1, {}, 0)
    ELSE minimaxMoves(ag, game, depth, maximizing_player, q + 1,
                      get_legal_moves(game, game.active))

\* game_agent.py:340
BetaCutoff(score, beta) == score >= beta
\* game_agent.py:360
AlphaCutoff(score, alpha) == score <= alpha
\* game_agent.py:343-344
RaiseAlpha(new_alpha, score) == IF score > new_alpha THEN score ELSE new_alpha
\* game_agent.py:362-363
LowerBeta(new_beta, score) == IF score < new_beta THEN score ELSE new_beta

\* alphabetaLeaf expanding one more ply, as minimax does at depth 1
alphabetaLeaf_expands(ag, game, q) ==
    Result("ok", Score(ag.score, game, ag.self).value, Absent, q,
           {forecast_move(game, m) : m \in Range(get_legal_moves(game, game.active))},
           1, << >>, FALSE)

\* game_agent.py:329-330: the state itself is scored
alphabetaLeaf(ag, game, q) ==
    Result("ok", Score(ag.score, game, ag.self).value, Absent, q, {}, 1, << >>, FALSE)

RECURSIVE alphabeta(_, _, _, _, _, _, _)
RECURSIVE alphabetaMax(_, _, _, _, _, _, _)
RECURSIVE alphabetaMin(_, _, _, _, _, _, _)

\* game_agent.py:339-346: one child of a maximizing node; acc.bound is new_alpha
alphabetaMaxChild(acc, beta, possible_move, new_game, score) ==
    IF score.status = "timeout"
    THEN [AccAfter(acc, new_game, score) EXCEPT !.status = "timeout"]
    ELSE IF BetaCutoff(score.score, beta)
    THEN [AccAfter(acc, new_game, score) EXCEPT
              !.cut = TRUE, !.score = score.score, !.move = possible_move]
    ELSE [AccAfter(acc, new_game, score) EXCEPT
              !.bound = RaiseAlpha(@, score.score),
              !.scores = Append(@, score.score)]

\* game_agent.py:359-364: one child of a minimizing node; acc.bound is new_beta
alphabetaMinChild(acc, alpha, possible_move, new_game, score) ==
    IF score.status = "timeout"
    THEN [AccAfter(acc, new_game, score) EXCEPT !.status = "timeout"]
    ELSE IF AlphaCutoff(score.score, alpha)
    THEN [AccAfter(acc, new_game, score) EXCEPT
              !.cut = TRUE, !.score = score.score, !.move = possible_move]
    ELSE [AccAfter(acc, new_game, score) EXCEPT
              !.bound = LowerBeta(@, score.score),
              !.scores = Append(@, score.score)]

\* game_agent.py:336-346
alphabetaMax(ag, game, queue, depth, beta, i, acc) ==
    IF i > Len(queue) \/ acc.status = "timeout" \/ acc.cut THEN acc
    ELSE alphabetaMax(ag, game, queue, depth, beta, i + 1,
             alphabetaMaxChild(acc, beta, queue[i], forecast_move(game, queue[i]),
                 alphabeta(ag, forecast_move(game, queue[i]), depth - 1,
                           acc.bound, beta, FALSE, acc.q)))

\* game_agent.py:356-364
alphabetaMin(ag, game, queue, depth, alpha, i, acc) ==
    IF i > Len(queue) \/ acc.status = "timeout" \/ acc.cut THEN acc
    ELSE alphabetaMin(ag, game, queue, depth, alpha, i + 1,
             alphabetaMinChild(acc, alpha, queue[i], forecast_move(game, queue[i]),
                 alphabeta(ag, forecast_move(game, queue[i]), depth - 1,
                           alpha, acc.bound, TRUE, acc.q)))

\* game_agent.py:341, 348-352, 361 and 366-370
alphabetaSelect(queue, kids, best) ==
    IF kids.status = "timeout" THEN Raised(kids.q, kids.visited, kids.evals)
    ELSE IF kids.cut
    THEN Result("ok", kids.score, kids.move, kids.q,
                kids.visited, kids.evals, kids.scores, TRUE)
    ELSE Result("ok", kids.scores[best], queue[best], kids.q,
                kids.visited, kids.evals, kids.scores, FALSE)

alphabetaBest(maximizing_player, kids) ==
    IF kids.status = "timeout" \/ kids.cut THEN 1
    ELSE BestIndex(IF maximizing_player THEN "alphabeta_max" ELSE "alphabeta_min",
                   kids.scores, 1, 1)

\* game_agent.py:333-370
alphabetaNode(queue, maximizing_player, kids) ==
    alphabetaSelect(queue, kids, alphabetaBest(maximizing_player, kids))

\* game_agent.py:319-370
alphabetaMoves(ag, game, depth, alpha, beta, maximizing_player, q, queue) ==
    IF Len(queue) = 0
    THEN Result("ok", NoMovesScore(maximizing_player), NoMove, q, {}, 0, << >>, FALSE)
    ELSE IF depth = 0 THEN alphabetaLeaf(ag, game, q)
    ELSE alphabetaNode(queue, maximizing_player,
             IF maximizing_player
             THEN alphabetaMax(ag, game, queue, depth, beta, 1,
                               [Acc(q) EXCEPT !.bound = alpha])
             ELSE alphabetaMin(ag, game, queue, depth, alpha, 1,
                               [Acc(q) EXCEPT !.bound = beta]))

\* game_agent.py:282-370
alphabeta(ag, game, depth, alpha, beta, maximizing_player, q) ==
    IF TimeUp(ag.clock, q) THEN Raised(q + 1, {}, 0)
    ELSE alphabetaMoves(ag, game, depth, alpha, beta, maximizing_player, q + 1,
                        get_legal_moves(game, game.active))

\* ------------------------------------------------------------------ state
VARIABLES
    game,       \* the Board get_move is called with
    player,     \* the CustomPlayer: search_depth, score, iterative, method
    clock,      \* the time_left callable of the call
    pc,         \* "idle", "iterating" (inside the while True loop), "returned",
                \* "searched" and "scored" (after a direct call)
    depth,      \* the local depth of the iterative loop
    best_move,  \* the local best_move of get_move
    returned,   \* what get_move returned
    q,          \* clock queries made during the call
    evals,      \* calls of the score function made during the call
    calls,      \* the root calls of minimax/alphabeta made by get_move
    aborted,    \* the depth whose search raised Timeout, 0 if none did
    done,       \* the root move of each completed iteration, by depth
    mm,         \* result of a direct call of minimax
    ab,         \* result of a direct call of alphabeta
    ev          \* results of direct calls of the score function, for player 1
                \* and for player 2

vars == <<game, player, clock, pc, depth, best_move, returned, q, evals, calls,
          aborted, done, mm, ab, ev>>

\* the clocks: one that loses a unit per query, from every first reading
\* between just under the threshold and MaxSlack over it, and one that
\* stands still over the threshold
Clocks ==
    {[t0 |-> t, rate |-> 1] :
        t \in (TIMER_THRESHOLD - 1)..(TIMER_THRESHOLD + MaxSlack)}
    \cup {[t0 |-> TIMER_THRESHOLD + MaxSlack, rate |-> 0]}

StillClock == [t0 |-> TIMER_THRESHOLD, rate |-> 0]

\* game_agent.py:106-113
CustomPlayer(search_depth, score_fn, iterative, method) ==
    [search_depth |-> search_depth, score |-> score_fn,
     iterative |-> iterative, method |-> method]

Players ==
    {CustomPlayer(d, f, i, m) :
        d \in 1..MaxSearchDepth, f \in ScoreFns, i \in BOOLEAN, m \in Methods}

\* the agent as the search methods read it: self.score, self (the player
\* to move when get_move is called), self.time_left
Agent(pl, g, clk) == [score |-> pl.score, self |-> g.active, clock |-> clk]

NoResult == Result("none", 0, NoMove, 0, {}, 0, << >>, FALSE)

InitCommon ==
    /\ \E d \in Dims : game = NewBoard(d[1], d[2])
    /\ clock = StillClock
    /\ pc = "idle"
    /\ depth = 0
    /\ best_move = NoMove
    /\ returned = NoMove
    /\ q = 0
    /\ evals = 0
    /\ calls = << >>
    /\ aborted = 0
    /\ done = << >>
    /\ mm = NoResult
    /\ ab = NoResult
    /\ ev = <<Eval(0, << >>), Eval(0, << >>)>>

Init ==
    /\ InitCommon
    /\ player \in {pl \in Players : pl.iterative => pl.search_depth = 1}

\* the game goes on: the player to move moves (the match, outside the agent)
Advance ==
    /\ pc = "idle"
    /\ game.move_count < MaxMoveCount
    /\ \E m \in Range(get_legal_moves(game, game.active)) :
          game' = forecast_move(game, m)
    /\ UNCHANGED <<player, clock, pc, depth, best_move, returned, q, evals, calls,
                   aborted, done, mm, ab, ev>>

\* game_agent.py:162
OpeningMove(g) == <<g.width \div 2, g.height \div 2>>

\* game_agent.py:192-195: the method called in fixed-depth mode
FixedRoutine(method) ==
    CASE method = "minimax" -> "minimax"
      [] method = "alphabeta" -> "minimax"

\* game_agent.py:175-185: the method called in iterative mode
IterativeRoutine(method) ==
    CASE method = "minimax" -> "minimax"
      [] method = "alphabeta" -> "alphabeta"

\* RootCall passing a depth of 1 whatever the loop's depth is
RootCall_depthOne(routine, ag, g, d, q0) ==
    IF routine = "minimax" THEN minimax(ag, g, 1, TRUE, q0)
    ELSE alphabeta(ag, g, 1, -Inf, Inf, TRUE, q0)

\* self.minimax(game, depth, True) or self.alphabeta(game, depth)
RootCall(routine, ag, g, d, q0) ==
    IF routine = "minimax" THEN minimax(ag, g, d, TRUE, q0)
    ELSE alphabeta(ag, g, d, -Inf, Inf, TRUE, q0)

\* game_agent.py:159-160
GetMoveNoMoves ==
    /\ pc = "idle"
    /\ Len(get_legal_moves(game, game.active)) = 0
    /\ \E clk \in Clocks : clock' = clk
    /\ returned' = NoMove
    /\ pc' = "returned"
    /\ UNCHANGED <<game, player, depth, best_move, q, evals, calls, aborted, done,
                   mm, ab, ev>>

\* game_agent.py:161-162
GetMoveOpening ==
    /\ pc = "idle"
    /\ Len(get_legal_moves(game, game.active)) # 0
    /\ game.move_count = 0
    /\ \E clk \in Clocks : clock' = clk
    /\ returned' = OpeningMove(game)
    /\ pc' = "returned"
    /\ UNCHANGED <<game, player, depth, best_move, q, evals, calls, aborted, done,
                   mm, ab, ev>>

\* game_agent.py:193-200: the call came to r
FixedDone(clk, routine, r) ==
    /\ clock' = clk
    /\ calls' = <<[routine |-> routine, depth |-> player.search_depth]>>
    /\ q' = r.q
    /\ evals' = r.evals
    /\ aborted' = IF r.status = "timeout" THEN player.search_depth ELSE aborted
    /\ best_move' = IF r.status = "timeout" THEN best_move ELSE r.move
    /\ returned' = IF r.status = "timeout" THEN best_move ELSE r.move

\* GetMoveFixed without the check for an empty list of legal moves
GetMoveFixed_unchecked ==
    /\ pc = "idle"
    /\ game.move_count # 0
    /\ ~player.iterative
    /\ \E clk \in Clocks :
          FixedDone(clk, FixedRoutine(player.method),
                    RootCall(FixedRoutine(player.method), Agent(player, game, clk),
                             game, player.search_depth, 0))
    /\ pc' = "returned"
    /\ UNCHANGED <<game, player, depth, done, mm, ab, ev>>

\* game_agent.py:191-196 and 198-200
GetMoveFixed ==
    /\ pc = "idle"
    /\ Len(get_legal_moves(game, game.active)) # 0
    /\ game.move_count # 0
    /\ ~player.iterative
    /\ \E clk \in Clocks :
          FixedDone(clk, FixedRoutine(player.method),
                    RootCall(FixedRoutine(player.method), Agent(player, game, clk),
                             game, player.search_depth, 0))
    /\ pc' = "returned"
    /\ UNCHANGED <<game, player, depth, done, mm, ab, ev>>

\* game_agent.py:174-176 and 182-183: depth = 1, before the first iteration
GetMoveIterative ==
    /\ pc = "idle"
    /\ Len(get_legal_moves(game, game.active)) # 0
    /\ game.move_count # 0
    /\ player.iterative
    /\ \E clk \in Clocks : clock' = clk
    /\ depth' = 1
    /\ pc' = "iterating"
    /\ UNCHANGED <<game, player, best_move, returned, q, evals, calls, aborted, done,
                   mm, ab, ev>>

\* IterationDone with an except clause that returns (-1, -1)
IterationDone_dropsBest(routine, r) ==
    /\ calls' = Append(calls, [routine |-> routine, depth |-> depth])
    /\ q' = r.q
    /\ evals' = evals + r.evals
    /\ IF r.status = "timeout"
       THEN /\ aborted' = depth
            /\ returned' = NoMove
            /\ pc' = "returned"
            /\ UNCHANGED <<best_move, depth, done>>
       ELSE /\ best_move' = r.move
            /\ done' = Append(done, r.move)
            /\ depth' = depth + 1
            /\ UNCHANGED <<returned, pc, aborted>>

\* game_agent.py:178-181, 185-188 and 198-200: the call came to r
IterationDone(routine, r) ==
    /\ calls' = Append(calls, [routine |-> routine, depth |-> depth])
    /\ q' = r.q
    /\ evals' = evals + r.evals
    /\ IF r.status = "timeout"
       THEN /\ aborted' = depth
            /\ returned' = best_move
            /\ pc' = "returned"
            /\ UNCHANGED <<best_move, depth, done>>
       ELSE /\ best_move' = r.move
            /\ done' = Append(done, r.move)
            /\ IF r.move = NoMove
               THEN /\ returned' = r.move
                    /\ pc' = "returned"
                    /\ UNCHANGED depth
               ELSE /\ depth' = depth + 1
                    /\ UNCHANGED <<returned, pc>>
            /\ UNCHANGED aborted

\* game_agent.py:177-181 and 184-188: one turn of the while True loop
Iterate ==
    /\ pc = "iterating"
    /\ depth <= MaxDepth
    /\ IterationDone(IterativeRoutine(player.method),
                     RootCall(IterativeRoutine(player.method),
                              Agent(player, game, clock), game, depth, q))
    /\ UNCHANGED <<game, player, clock, mm, ab, ev>>

Next ==
    \/ Advance
    \/ GetMoveNoMoves
    \/ GetMoveOpening
    \/ GetMoveFixed
    \/ GetMoveIterative
    \/ Iterate

Spec == Init /\ [][Next]_vars

\* --------------------------------------------- the search methods, called
\* directly (as a test of the agent does), with a clock that stands still
SearchInit ==
    /\ InitCommon
    /\ player \in {CustomPlayer(MaxSearchDepth, f, TRUE, "minimax") : f \in ScoreFns}

\* player.minimax(game, d) and player.alphabeta(game, d) on the same state;
\* as under get_move, both players have a location after any move of the
\* search (the heuristics index the locations)
Search ==
    /\ pc = "idle"
    /\ game.move_count # 0
    /\ \E d \in 1..MaxDepth :
          /\ depth' = d
          /\ mm' = minimax(Agent(player, game, StillClock), game, d, TRUE, 0)
          /\ ab' = alphabeta(Agent(player, game, StillClock), game, d, -Inf, Inf, TRUE, 0)
    /\ pc' = "searched"
    /\ UNCHANGED <<game, player, clock, best_move, returned, q, evals, calls,
                   aborted, done, ev>>

\* player.score(game, p) for both players
Evaluate ==
    /\ pc = "idle"
    /\ ev' = <<Score(player.score, game, 1), Score(player.score, game, 2)>>
    /\ pc' = "scored"
    /\ UNCHANGED <<game, player, clock, depth, best_move, returned, q, evals, calls,
                   aborted, done, mm, ab>>

SearchNext ==
    \/ Advance
    \/ Search
    \/ Evaluate

SearchSpec == SearchInit /\ [][SearchNext]_vars

\* ---------------------------------------------------------------- claims
RootMoves == get_legal_moves(game, game.active)

MaxOf(scores) == CHOOSE v \in Range(scores) : \A w \in Range(scores) : w <= v
FirstAt(scores, v) == CHOOSE k \in 1..Len(scores) :
                         scores[k] = v /\ \A j \in 1..(k - 1) : scores[j] # v
IndexOf(queue, move) == CHOOSE k \in 1..Len(queue) : queue[k] = move

\* both direct calls returned at a state with a legal move
Searched ==
    /\ pc = "searched"
    /\ Len(RootMoves) > 0
    /\ mm.status = "ok"
    /\ ab.status = "ok"

\* C1: with a clock that never trips, the root move alphabeta returns at
\* depth d is one whose minimax score at depth d (mm.scores holds the
\* minimax score of every root move) is the greatest among the root's
\* moves, and it is minimax's move when only one root move has that score.
C1_AlphabetaRootMoveIsMinimaxBest ==
    Searched =>
        /\ ab.move \in Range(RootMoves)
        /\ mm.scores[IndexOf(RootMoves, ab.move)] = MaxOf(mm.scores)
        /\ (Cardinality({k \in 1..Len(mm.scores) : mm.scores[k] = MaxOf(mm.scores)}) = 1
               => ab.move = mm.move)

\* C5: with a clock that never trips, every state alphabeta forecasts from
\* the root is a state minimax forecasts for the same state and depth.
C5_AlphabetaVisitsSubset ==
    Searched => ab.visited \subseteq mm.visited

\* C5 witness: alphabeta pruned, it reached strictly fewer states
C5_Witness ==
    /\ Searched
    /\ depth >= 2
    /\ ab.visited # {}
    /\ ab.visited # mm.visited

\* C9: a maximizing alphabeta node that searched every move without a beta
\* cutoff returns the greatest child score with the first move, in
\* enumeration order, that achieved it (the root is such a node).
C9_MaxNodeKeepsFirstSeen ==
    (Searched /\ ~ab.cut) =>
        /\ Len(ab.scores) = Len(RootMoves)
        /\ ab.score = MaxOf(ab.scores)
        /\ ab.move = RootMoves[FirstAt(ab.scores, MaxOf(ab.scores))]

\* C8: each score function returns -infinity for a loser and +infinity for
\* a winner that is not a loser, and asks is_loser, then is_winner, before
\* any other query on the state.
C8_TerminalScores ==
    pc = "scored" =>
        \A p \in 1..2 :
            /\ ev[p].queries[1] = "is_loser"
            /\ Len(ev[p].queries) >= 2 => ev[p].queries[2] = "is_winner"
            /\ is_loser(game, p) =>
                  ev[p].value = -Inf /\ ev[p].queries = <<"is_loser">>
            /\ (is_winner(game, p) /\ ~is_loser(game, p)) =>
                  ev[p].value = Inf /\ ev[p].queries = <<"is_loser", "is_winner">>

\* C8 witness: a lost game scored for the loser and for the winner, whose
\* own moves are not exhausted
C8_Witness ==
    /\ pc = "scored"
    /\ \E p \in 1..2 :
          /\ is_loser(game, p) /\ ev[p].value = -Inf
          /\ is_winner(game, Other(p)) /\ ev[Other(p)].value = Inf
          /\ Len(get_legal_moves(game, Other(p))) > 0

\* the call of get_move has returned, in the mode and from the kind of
\* state named
ReturnedIterative ==
    /\ pc = "returned"
    /\ player.iterative
    /\ Len(RootMoves) > 0
    /\ game.move_count # 0

ReturnedFixed ==
    /\ pc = "returned"
    /\ ~player.iterative
    /\ Len(RootMoves) > 0
    /\ game.move_count # 0

\* the search of depth d that get_move's iterative loop makes, run to its
\* end with a clock that stands still
Completed(d) ==
    IF player.method = "minimax"
    THEN minimax(Agent(player, game, StillClock), game, d, TRUE, 0)
    ELSE alphabeta(Agent(player, game, StillClock), game, d, -Inf, Inf, TRUE, 0)

\* C2: in iterative mode, when Timeout is raised during the search of depth
\* D, get_move returns the root move of the completed search of depth D-1
\* if D >= 2, and (-1, -1) if D = 1.
C2_TimeoutReturnsLastCompletedDepth ==
    (ReturnedIterative /\ aborted > 0) =>
        returned = IF aborted >= 2 THEN Completed(aborted - 1).move ELSE NoMove

\* C2 witness: the search of depth 2 or more was aborted after visiting
\* states, and the move returned is not the one that depth would have chosen
C2_Witness ==
    /\ ReturnedIterative
    /\ aborted >= 2
    /\ q > Len(calls)
    /\ returned # NoMove
    /\ returned # Completed(aborted).move

\* C3: whatever get_move returns is (-1, -1) or one of the legal moves of
\* the state it was called with, on every board.
C3_ReturnedMoveIsLegal ==
    pc = "returned" => (returned = NoMove \/ returned \in Range(RootMoves))

\* height of the game tree under g: the longest sequence of moves left
RECURSIVE Height(_)
Height(g) ==
    LET queue == get_legal_moves(g, g.active)
        below == {Height(forecast_move(g, queue[k])) : k \in 1..Len(queue)}
    IN  IF Len(queue) = 0 THEN 0
        ELSE 1 + (CHOOSE h \in below : \A x \in below : x <= h)

C6_NoMovesReturnsSentinelUntouched ==
    (pc = "returned" /\ Len(RootMoves) = 0) =>
        /\ returned = NoMove
        /\ evals = 0
        /\ calls = << >>
        /\ q = 0

\* C6 witness: a player with no legal move was asked for one
C6_Witness ==
    /\ pc = "returned"
    /\ Len(RootMoves) = 0
    /\ game.move_count >= 2
    /\ returned = NoMove

\* C7: at the opening position get_move returns the center of the board,
\* a (row, column) cell of it, and runs no search.
C7_OpeningReturnsCenterCell ==
    (pc = "returned" /\ game.move_count = 0 /\ Len(RootMoves) > 0) =>
        /\ returned = <<game.height \div 2, game.width \div 2>>
        /\ returned[1] \in 0..(game.height - 1)
        /\ returned[2] \in 0..(game.width - 1)
        /\ calls = << >>
        /\ evals = 0

\* C10: in fixed-depth mode get_move makes exactly one root call, of the
\* configured method at the configured depth.
C10_FixedModeCallsConfiguredMethod ==
    ReturnedFixed =>
        calls = <<[routine |-> player.method, depth |-> player.search_depth]>>

\* the clock queries made so far in the call of get_move, numbered from 0,
\* that reported a value below TIMER_THRESHOLD
QueriesBelowThreshold ==
    {k \in 0..(q - 1) : time_left(clock, k) < TIMER_THRESHOLD}

====
